---- MODULE Spec2Model ----
(***************************************************************************)
(* The API admission-control pipeline of the family finance tracker:       *)
(* middleware/rate-limit (createRateLimiter over the module-level          *)
(* requestStore) and the guards and the composer of middleware/validation. *)
(*                                                                         *)
(* Strings are sequences of symbols; a symbol stands for a fixed run of    *)
(* characters ("," and " " are single characters).  Instants are           *)
(* milliseconds since the epoch, as Date.now() returns them.  A JavaScript *)
(* invocation runs to completion: an async function only yields at an      *)
(* await, so each action below is the code between two awaits.             *)
(***************************************************************************)
EXTENDS Integers, Sequences, FiniteSets, TLC

VARIABLES
    env,           \* process.env.NODE_ENV
    now,           \* the reading Date.now() returns
    requestStore,  \* Map<string, RequestRecord>, a function on the keys present
    slot,          \* the route invocations in flight, one per connection
    windowLog,     \* per key, how many requests each limiter saw in the key's current window
    served,        \* how many route invocations have started
    trial          \* a call of an exported helper: its arguments and what it returned

vars == <<env, now, requestStore, slot, windowLog, served, trial>>

-----------------------------------------------------------------------------
(* Bounds of the exploration *)

NumSlots == 2
MaxServed == 4
TierServed == 11
BurstMax == 2
ApiMax == 3
ClockGrain == 750
PageSpan == 3
SanitizeLen == 4
SizeSteps == 4

-----------------------------------------------------------------------------
(* Strings *)

RECURSIVE Digits(_)
Digits(n) == IF n < 10 THEN << n >> ELSE Digits(n \div 10) \o << n % 10 >>

DigitSymbol(d) == CASE d = 0 -> "0" [] d = 1 -> "1" [] d = 2 -> "2" [] d = 3 -> "3"
                    [] d = 4 -> "4" [] d = 5 -> "5" [] d = 6 -> "6" [] d = 7 -> "7"
                    [] d = 8 -> "8" [] d = 9 -> "9"

\* Number.prototype.toString() of an integer
NumberToString(n) ==
    LET ds == Digits(IF n < 0 THEN -n ELSE n)
        str == [i \in 1..Len(ds) |-> DigitSymbol(ds[i])]
    IN IF n < 0 THEN << "-" >> \o str ELSE str

\* String.prototype.trim()
TrimStart(s) ==
    LET blanks == {i \in 0..Len(s) : \A j \in 1..i : s[j] = " "}
        n == CHOOSE i \in blanks : \A j \in blanks : j <= i
    IN SubSeq(s, n + 1, Len(s))

TrimEnd(s) ==
    LET keeps == {i \in 0..Len(s) : \A j \in (i + 1)..Len(s) : s[j] = " "}
        n == CHOOSE i \in keeps : \A j \in keeps : i <= j
    IN SubSeq(s, 1, n)

Trim(s) == TrimEnd(TrimStart(s))

\* String.prototype.split(',')[0]
SplitCommaFirst(s) ==
    LET stops == {i \in 1..(Len(s) + 1) : i = Len(s) + 1 \/ s[i] = ","}
        n == CHOOSE i \in stops : \A j \in stops : i <= j
    IN SubSeq(s, 1, n - 1)

\* String.prototype.includes(part)
Includes(s, part) ==
    \E i \in 0..(Len(s) - Len(part)) : SubSeq(s, i + 1, i + Len(part)) = part

-----------------------------------------------------------------------------
(* Requests *)

HasHeader(req, name) == name \in DOMAIN req.headers

\* the falsy header values are null and the empty string
HeaderSet(req, name) == HasHeader(req, name) /\ req.headers[name] # << >>

LOOPBACK4 == << "127.0.0.1" >>
LOOPBACK6 == << "::1" >>
UNKNOWN == << "unknown" >>
LanAddress == << "10.0.0.1" >>

JsonType == << "application/json" >>

Request(headers, ip) == [headers |-> headers, ip |-> ip]

SmallLength == << "5", "1", "2" >>
LargeLength == << "2", "0", "9", "7", "1", "5", "2" >>

SmallJson == ("content-length" :> SmallLength) @@ ("content-type" :> JsonType)

Requests ==
    { Request(SmallJson, LanAddress),
      Request(SmallJson @@ ("x-forwarded-for" :> << " ", "127.0.0.1", ",", " ", "10.0.0.1" >>),
              LanAddress),
      Request(SmallJson @@ ("x-real-ip" :> LOOPBACK6), LanAddress),
      Request(SmallJson, << >>),
      Request(("content-length" :> LargeLength) @@ ("content-type" :> JsonType), LanAddress),
      Request(("content-length" :> SmallLength) @@ ("content-type" :> << "text/plain" >>), LanAddress) }

UserOne == << "user-1" >>

getClientIPRealFirst(req) ==
    IF HeaderSet(req, "x-real-ip")
    THEN req.headers["x-real-ip"]
    ELSE IF HeaderSet(req, "x-forwarded-for")
         THEN Trim(SplitCommaFirst(req.headers["x-forwarded-for"]))
         ELSE IF req.ip # << >> THEN req.ip ELSE UNKNOWN

\* getClientIP
getClientIP(req) ==
    IF HeaderSet(req, "x-forwarded-for")
    THEN Trim(SplitCommaFirst(req.headers["x-forwarded-for"]))
    ELSE IF HeaderSet(req, "x-real-ip")
         THEN req.headers["x-real-ip"]
         ELSE IF req.ip # << >> THEN req.ip ELSE UNKNOWN

-----------------------------------------------------------------------------
(* Date.prototype.toISOString *)

RECURSIVE ZeroPad(_, _)
ZeroPad(str, width) == IF Len(str) >= width THEN str ELSE ZeroPad(<< "0" >> \o str, width)

\* the proleptic Gregorian date of a day number (days since 1970-01-01)
CivilFromDays(days) ==
    LET z == days + 719468
        era == z \div 146097
        doe == z - era * 146097
        yoe == (doe - doe \div 1460 + doe \div 36524 - doe \div 146096) \div 365
        doy == doe - (365 * yoe + yoe \div 4 - yoe \div 100)
        mp == (5 * doy + 2) \div 153
        d == doy - (153 * mp + 2) \div 5 + 1
        m == IF mp < 10 THEN mp + 3 ELSE mp - 9
    IN [year |-> yoe + era * 400 + (IF m <= 2 THEN 1 ELSE 0), month |-> m, day |-> d]

\* new Date(ms).toISOString(), for the four-digit years
toISOString(ms) ==
    LET date == CivilFromDays(ms \div (24 * 3600000))
        rest == ms % (24 * 3600000)
        P(n, w) == ZeroPad(NumberToString(n), w)
    IN P(date.year, 4) \o << "-" >> \o P(date.month, 2) \o << "-" >> \o P(date.day, 2)
       \o << "T" >> \o P(rest \div 3600000, 2) \o << ":" >> \o P((rest \div 60000) % 60, 2)
       \o << ":" >> \o P((rest \div 1000) % 60, 2) \o << "." >> \o P(rest % 1000, 3)
       \o << "Z" >>

\* Math.ceil(x / 1000) of an integer x
CeilDiv1000(x) == -((-x) \div 1000)

-----------------------------------------------------------------------------
(* middleware/rate-limit *)

DEFAULT_CONFIG ==
    [maxRequests |-> 100,
     windowMs |-> 15 * 60 * 1000,
     message |-> "Too many requests, please try again later.",
     statusCode |-> 429,
     skipSuccessfulRequests |-> FALSE]

\* const finalConfig = { ...DEFAULT_CONFIG, ...config }
createRateLimiter(config) ==
    [f \in DOMAIN DEFAULT_CONFIG \cup DOMAIN config |->
        IF f \in DOMAIN config THEN config[f] ELSE DEFAULT_CONFIG[f]]

rateLimiter == createRateLimiter(<< >>)

strictRateLimiter ==
    createRateLimiter([maxRequests |-> 10,
                       windowMs |-> 15 * 60 * 1000,
                       message |-> "Too many authentication attempts, please try again later."])

lenientRateLimiter == createRateLimiter([maxRequests |-> 200, windowMs |-> 15 * 60 * 1000])

\* limiters a route module creates for itself
burstLimiter == createRateLimiter([maxRequests |-> BurstMax, windowMs |-> 2 * ClockGrain])

apiLimiter ==
    createRateLimiter([maxRequests |-> ApiMax,
                       windowMs |-> ClockGrain,
                       message |-> "API quota exceeded",
                       statusCode |-> 503,
                       skipSuccessfulRequests |-> TRUE])

\* a value an invocation completes with when it throws (a rejected promise)
Thrown(error) == [kind |-> "thrown", error |-> error]

\* a keyGenerator a route module passes in the config, a function of the request
\* that returns a string or throws: (req) => req.headers.get('x-user-id').trim()
userIdKey(req) ==
    IF HasHeader(req, "x-user-id")
    THEN [threw |-> FALSE, value |-> Trim(req.headers["x-user-id"])]
    ELSE [threw |-> TRUE, error |-> "TypeError"]

\* a limiter keyed by the generator
userLimiter ==
    createRateLimiter([maxRequests |-> BurstMax,
                       windowMs |-> 2 * ClockGrain,
                       keyGenerator |-> "userIdKey"])

Limiter ==
    [standard |-> rateLimiter, strict |-> strictRateLimiter, lenient |-> lenientRateLimiter,
     burst |-> burstLimiter, api |-> apiLimiter, user |-> userLimiter]

TierLimiters == {"standard", "strict", "lenient"}
RouteLimiters == {"burst", "api"}
LimiterNames == TierLimiters \cup RouteLimiters \cup {"user"}

Continue == [kind |-> "continue"]

Response(status, body, headers) ==
    [kind |-> "response", status |-> status, body |-> body, headers |-> headers]

IsLoopbackKey(clientKey) == clientKey = LOOPBACK4 \/ clientKey = LOOPBACK6 \/ clientKey = UNKNOWN

BypassInAnyEnv(cfg, nodeEnv, clientKey) == IsLoopbackKey(clientKey)
BypassApplies(cfg, nodeEnv, clientKey) == nodeEnv = "development" /\ IsLoopbackKey(clientKey)

LimitExceededFromMax(count, cfg) == count >= cfg.maxRequests
LimitExceededOnce(count, cfg) == count = cfg.maxRequests + 1
LimitExceeded(count, cfg) == count > cfg.maxRequests

WindowExpiredLate(t, record) == t > record.resetTime + 1
WindowExpiredAtReset(t, record) == t >= record.resetTime
WindowExpired(t, record) == t > record.resetTime

RetryAfter(record, t) == CeilDiv1000(record.resetTime - t)

cleanupExpiredEntriesAtReset(store, t) ==
    [k \in {key \in DOMAIN store : ~(t >= store[key].resetTime)} |-> store[k]]

\* record.count % 100 === 0
SweepDueEveryRequest(count) == TRUE
SweepDue(count) == count % 100 = 0

\* cleanupExpiredEntries, reading the clock at t
cleanupExpiredEntries(store, t) ==
    [k \in {key \in DOMAIN store : ~(t > store[key].resetTime)} |-> store[k]]

NoRecord == [count |-> 0, resetTime |-> 0]
NoCall == [limiter |-> "none"]

TooManyRequestsResetFromNow(cfg, record, t) ==
    LET retryAfter == RetryAfter(record, t)
    IN Response(cfg.statusCode,
                [error |-> cfg.message, retryAfter |-> retryAfter],
                [RetryAfter |-> NumberToString(retryAfter),
                 XRateLimitLimit |-> NumberToString(cfg.maxRequests),
                 XRateLimitRemaining |-> << "0" >>,
                 XRateLimitReset |-> toISOString(t + cfg.windowMs)])

TooManyRequests(cfg, record, t) ==
    LET retryAfter == RetryAfter(record, t)
    IN Response(cfg.statusCode,
                [error |-> cfg.message, retryAfter |-> retryAfter],
                [RetryAfter |-> NumberToString(retryAfter),
                 XRateLimitLimit |-> NumberToString(cfg.maxRequests),
                 XRateLimitRemaining |-> << "0" >>,
                 XRateLimitReset |-> toISOString(record.resetTime)])

\* requestStore.set(clientKey, record) and record.count++: the map holds the
\* record object itself, so the increment is an increment of the stored record
WriteBackLosesIncrement(store, clientKey, record) ==
    [k \in DOMAIN store \cup {clientKey} |->
        IF k = clientKey /\ k \notin DOMAIN store THEN record
        ELSE IF k = clientKey THEN [record EXCEPT !.count = store[k].count]
        ELSE store[k]]

WriteBackOverAll(store, clientKey, record) ==
    [k \in DOMAIN store \cup {clientKey} |-> record]

WriteBack(store, clientKey, record) ==
    [k \in DOMAIN store \cup {clientKey} |-> IF k = clientKey THEN record ELSE store[k]]

\* one invocation of rateLimitMiddleware: the result it returns, the store it
\* leaves, and its locals (clientKey, now, the record fetched and the record
\* after the increment)
rateLimitMiddleware(name, req, store, t, nodeEnv) ==
    LET cfg == Limiter[name]
        \* the bypass, the limit check and the sweep, given the record written
        Decide(clientKey, written, locals) ==
            IF BypassApplies(cfg, nodeEnv, clientKey)
            THEN [result |-> Continue, store |-> store,
                  call |-> [locals EXCEPT !.bypassed = TRUE, !.fresh = FALSE,
                                          !.record = NoRecord]]
            ELSE IF LimitExceeded(written[clientKey].count, cfg)
                 THEN [result |-> TooManyRequests(cfg, written[clientKey], t),
                       store |-> written, call |-> locals]
                 ELSE [result |-> Continue,
                       store |-> IF SweepDue(written[clientKey].count)
                                 THEN cleanupExpiredEntries(written, t) ELSE written,
                       call |-> locals]
        \* requestStore.set and record.count++
        Count(clientKey, found, fresh, record) ==
            Decide(clientKey, WriteBack(store, clientKey, record),
                   [limiter |-> name, clientKey |-> clientKey, now |-> t, found |-> found,
                    before |-> IF found THEN store[clientKey] ELSE NoRecord,
                    fresh |-> fresh, record |-> record, bypassed |-> FALSE, threw |-> FALSE])
        \* a new window, or the stored one
        Open(clientKey, found, fresh) ==
            Count(clientKey, found, fresh,
                  [(IF fresh THEN [count |-> 0, resetTime |-> t + cfg.windowMs]
                    ELSE store[clientKey]) EXCEPT !.count = @ + 1])
        \* requestStore.get(clientKey)
        Fetch(clientKey, found) ==
            Open(clientKey, found, ~found \/ WindowExpired(t, store[clientKey]))
        \* the key generator threw, or the key it returned is limited
        Keyed(generated) ==
            IF generated.threw
            THEN [result |-> Thrown(generated.error), store |-> store,
                  call |-> [limiter |-> name, clientKey |-> << >>, now |-> t,
                            found |-> FALSE, before |-> NoRecord, fresh |-> FALSE,
                            record |-> NoRecord, bypassed |-> FALSE, threw |-> TRUE]]
            ELSE Fetch(generated.value, generated.value \in DOMAIN store)
    IN Keyed(IF "keyGenerator" \in DOMAIN cfg
             THEN CASE cfg.keyGenerator = "userIdKey" -> userIdKey(req)
             ELSE [threw |-> FALSE, value |-> getClientIP(req)])

resetRateLimitDropsAll(store, clientKey) == << >>

\* resetRateLimit
resetRateLimit(store, clientKey) == [k \in DOMAIN store \ {clientKey} |-> store[k]]

\* getRateLimitStatus; null is NoRecord
getRateLimitStatus(store, clientKey) ==
    IF clientKey \in DOMAIN store THEN store[clientKey] ELSE NoRecord

\* clearAllRateLimits
clearAllRateLimits(store) == << >>

-----------------------------------------------------------------------------
(* middleware/validation: the boundary guards and the composer *)

DigitValue(c) == CASE c = "0" -> 0 [] c = "1" -> 1 [] c = "2" -> 2 [] c = "3" -> 3
                   [] c = "4" -> 4 [] c = "5" -> 5 [] c = "6" -> 6 [] c = "7" -> 7
                   [] c = "8" -> 8 [] c = "9" -> 9 [] OTHER -> -1

RECURSIVE DecimalValue(_)
DecimalValue(ds) ==
    IF ds = << >> THEN 0
    ELSE 10 * DecimalValue(SubSeq(ds, 1, Len(ds) - 1)) + DigitValue(ds[Len(ds)])

\* parseInt(str, 10): leading blanks, an optional sign, then the longest run of digits
parseInt(str) ==
    LET t == TrimStart(str)
        signed == t # << >> /\ t[1] \in {"-", "+"}
        u == IF signed THEN SubSeq(t, 2, Len(t)) ELSE t
        runs == {i \in 0..Len(u) : \A j \in 1..i : DigitValue(u[j]) >= 0}
        n == CHOOSE i \in runs : \A j \in runs : j <= i
        magnitude == DecimalValue(SubSeq(u, 1, n))
    IN [nan |-> n = 0,
        value |-> IF signed /\ t[1] = "-" THEN -magnitude ELSE magnitude]

\* (maxSizeBytes / 1024).toFixed(0) followed by KB
MaxSizeLabel(maxSizeBytes) == NumberToString((2 * maxSizeBytes + 1024) \div 2048) \o << "KB" >>

validateRequestSizeFromMax(maxSizeBytes, req) ==
    IF HeaderSet(req, "content-length")
       /\ ~parseInt(req.headers["content-length"]).nan
       /\ parseInt(req.headers["content-length"]).value >= maxSizeBytes
    THEN Response(413,
                  [error |-> "Request payload too large",
                   maxSize |-> MaxSizeLabel(maxSizeBytes)],
                  << >>)
    ELSE Continue

\* validateRequestSize(maxSizeBytes)(req)
validateRequestSize(maxSizeBytes, req) ==
    IF HeaderSet(req, "content-length")
       /\ ~parseInt(req.headers["content-length"]).nan
       /\ parseInt(req.headers["content-length"]).value > maxSizeBytes
    THEN Response(413,
                  [error |-> "Request payload too large",
                   maxSize |-> MaxSizeLabel(maxSizeBytes)],
                  << >>)
    ELSE Continue

validateContentTypeExactMatch(req, allowedTypes) ==
    IF ~HeaderSet(req, "content-type")
       \/ ~(\E i \in 1..Len(allowedTypes) : req.headers["content-type"] = allowedTypes[i])
    THEN Response(415, [error |-> "Invalid Content-Type", allowedTypes |-> allowedTypes], << >>)
    ELSE Continue

\* validateContentType(req, allowedTypes)
validateContentType(req, allowedTypes) ==
    IF ~HeaderSet(req, "content-type")
       \/ ~(\E i \in 1..Len(allowedTypes) :
               Includes(req.headers["content-type"], allowedTypes[i]))
    THEN Response(415, [error |-> "Invalid Content-Type", allowedTypes |-> allowedTypes], << >>)
    ELSE Continue

SizeGuard(maxSizeBytes) == [kind |-> "size", maxSizeBytes |-> maxSizeBytes]
ContentTypeGuard(allowedTypes) == [kind |-> "contentType", allowedTypes |-> allowedTypes]
RateLimitGuard(name) == [kind |-> "rateLimit", limiter |-> name]

OneMegabyte == 1024 * 1024

FirstFailure(results) ==
    LET failed == {i \in 1..Len(results) : results[i] # Continue}
    IN IF failed = {} THEN Continue
       ELSE results[CHOOSE i \in failed : \A j \in failed : i <= j]

combineValidationsNeverReturnsEarly(validations, results) ==
    IF Len(results) = Len(validations)
    THEN [do |-> "return", result |-> Continue]
    ELSE [do |-> "invoke", index |-> Len(results) + 1]

combineValidationsRunsAll(validations, results) ==
    IF Len(results) = Len(validations)
    THEN [do |-> "return", result |-> FirstFailure(results)]
    ELSE [do |-> "invoke", index |-> Len(results) + 1]

\* where the loop of combineValidations stands once the guards invoked so far
\* have returned `results`
combineValidations(validations, results) ==
    IF results # << >> /\ results[Len(results)].kind = "thrown"
    THEN [do |-> "throw", result |-> results[Len(results)]]
    ELSE IF results # << >> /\ results[Len(results)] # Continue
    THEN [do |-> "return", result |-> results[Len(results)]]
    ELSE IF Len(results) = Len(validations)
         THEN [do |-> "return", result |-> Continue]
         ELSE [do |-> "invoke", index |-> Len(results) + 1]

\* the guard lists of the routes
GuardedRoute ==
    << SizeGuard(OneMegabyte), ContentTypeGuard(<< JsonType >>), RateLimitGuard("burst") >>
Routes == {GuardedRoute, << RateLimitGuard("api"), SizeGuard(OneMegabyte) >>, << >>}

-----------------------------------------------------------------------------
(* JavaScript values and JSON *)

Undefined == [type |-> "undefined"]
Null == [type |-> "null"]
Str(s) == [type |-> "string", text |-> s]
Num(n) == [type |-> "number", value |-> n]
Bool(b) == [type |-> "boolean", flag |-> b]

\* an object is the list of its own properties, in insertion order
Obj(members) == [type |-> "object", members |-> members]
Member(key, value) == [key |-> key, value |-> value]

HasKey(obj, key) == \E i \in 1..Len(obj.members) : obj.members[i].key = key

\* obj[key]
Get(obj, key) ==
    IF HasKey(obj, key)
    THEN obj.members[CHOOSE i \in 1..Len(obj.members) : obj.members[i].key = key].value
    ELSE Undefined

\* obj[key] = value
Put(obj, key, value) ==
    IF HasKey(obj, key)
    THEN Obj([i \in 1..Len(obj.members) |->
                 IF obj.members[i].key = key THEN Member(key, value) ELSE obj.members[i]])
    ELSE Obj(Append(obj.members, Member(key, value)))

Quote == "\""

\* the text of a request body: JSON.stringify(v)
RECURSIVE stringify(_)
RECURSIVE stringifyMembers(_)
stringify(v) ==
    CASE v.type = "string" -> << Quote >> \o v.text \o << Quote >>
      [] v.type = "number" -> NumberToString(v.value)
      [] v.type = "boolean" -> IF v.flag THEN << "true" >> ELSE << "false" >>
      [] v.type = "null" -> << "null" >>
      [] v.type = "object" -> << "{" >> \o stringifyMembers(v.members) \o << "}" >>

stringifyMembers(ms) ==
    IF ms = << >> THEN << >>
    ELSE << Quote >> \o ms[1].key \o << Quote, ":" >> \o stringify(ms[1].value)
         \o (IF Len(ms) > 1 THEN << "," >> \o stringifyMembers(Tail(ms)) ELSE << >>)

Failed == [ok |-> FALSE]

\* a string literal: it closes at the next quote
ParseStringAt(s, i) ==
    LET stops == {j \in (i + 1)..Len(s) : s[j] = Quote}
        closing == CHOOSE j \in stops : \A k \in stops : j <= k
    IN IF i <= Len(s) /\ s[i] = Quote /\ stops # {}
       THEN [ok |-> TRUE, value |-> SubSeq(s, i + 1, closing - 1), next |-> closing + 1]
       ELSE Failed

\* a JSON number without fraction and exponent
ParseNumberAt(s, i) ==
    LET negative == i <= Len(s) /\ s[i] = "-"
        from == IF negative THEN i + 1 ELSE i
        ends == {j \in (from - 1)..Len(s) : \A k \in from..j : DigitValue(s[k]) >= 0}
        last == CHOOSE j \in ends : \A k \in ends : k <= j
        digits == SubSeq(s, from, last)
        magnitude == DecimalValue(digits)
    IN IF last >= from /\ ~(Len(digits) > 1 /\ digits[1] = "0")
       THEN [ok |-> TRUE, value |-> Num(IF negative THEN -magnitude ELSE magnitude),
             next |-> last + 1]
       ELSE Failed

RECURSIVE ParseValueAt(_, _)
RECURSIVE ParseMembersAt(_, _, _)
ParseValueAt(s, i) ==
    IF i > Len(s) THEN Failed
    ELSE IF s[i] = Quote
    THEN LET r == ParseStringAt(s, i)
         IN IF r.ok THEN [ok |-> TRUE, value |-> Str(r.value), next |-> r.next] ELSE Failed
    ELSE IF s[i] \in {"true", "false"}
    THEN [ok |-> TRUE, value |-> Bool(s[i] = "true"), next |-> i + 1]
    ELSE IF s[i] = "null" THEN [ok |-> TRUE, value |-> Null, next |-> i + 1]
    ELSE IF s[i] = "{"
    THEN IF i + 1 <= Len(s) /\ s[i + 1] = "}"
         THEN [ok |-> TRUE, value |-> Obj(<< >>), next |-> i + 2]
         ELSE ParseMembersAt(s, i + 1, Obj(<< >>))
    ELSE ParseNumberAt(s, i)

ParseMembersAt(s, i, obj) ==
    LET k == ParseStringAt(s, i)
    IN IF ~k.ok \/ k.next > Len(s) \/ s[k.next] # ":" THEN Failed
       ELSE LET v == ParseValueAt(s, k.next + 1)
            IN IF ~v.ok \/ v.next > Len(s) THEN Failed
               ELSE IF s[v.next] = ","
               THEN ParseMembersAt(s, v.next + 1, Put(obj, k.value, v.value))
               ELSE IF s[v.next] = "}"
               THEN [ok |-> TRUE, value |-> Put(obj, k.value, v.value), next |-> v.next + 1]
               ELSE Failed

\* req.json(): the body text parsed as JSON, or a SyntaxError
json(text) ==
    LET r == ParseValueAt(text, 1)
    IN IF r.ok /\ r.next = Len(text) + 1
       THEN [threw |-> FALSE, value |-> r.value]
       ELSE [threw |-> TRUE, error |-> "SyntaxError"]

-----------------------------------------------------------------------------
(* middleware/validation: schemas, the body validator and the query validator *)

\* isValidEmail: /^[^\s@]+@[^\s@]+\.[^\s@]+$/
isValidEmail(email) ==
    /\ \A i \in 1..Len(email) : email[i] # " "
    /\ \E at \in 2..(Len(email) - 3) :
          /\ email[at] = "@"
          /\ \A i \in 1..Len(email) : email[i] = "@" => i = at
          /\ \E dot \in (at + 2)..(Len(email) - 1) : email[dot] = "."

\* the schemas, as zod builds them: z.string(), z.number(), z.boolean() and
\* z.any() with their checks in the order they were chained, z.object(shape)
\* and .optional()
ZType(kind, checks) == [kind |-> kind, checks |-> checks]
ZObject(shape) == [kind |-> "object", shape |-> shape]
ZOptional(inner) == [kind |-> "optional", inner |-> inner]

\* a check chained on a schema, with the message it was given
Check(kind, value, message) == [kind |-> kind, value |-> value, message |-> << message >>]

\* commonSchemas
commonSchemas ==
    [email |-> ZType("string", << Check("email", 0, "Invalid email format"),
                                  Check("min", 1, "Email is required") >>),
     positiveNumber |-> ZType("number", << Check("positive", 0, "Must be a positive number") >>)]

\* the message of zod's invalid_type issue
InvalidType(expected, v) ==
    IF v.type = "undefined" THEN << "Required" >>
    ELSE << "Expected ", expected, ", received ", v.type >>

\* what one check does with a value of the schema's type: it passes, it fails or
\* its callback throws; the refinement is (val) => val.trim().length > 0
CheckOutcome(check, v) ==
    CASE check.kind = "email" -> IF isValidEmail(v.text) THEN "passes" ELSE "fails"
      [] check.kind = "min" -> IF Len(v.text) >= check.value THEN "passes" ELSE "fails"
      [] check.kind = "positive" -> IF v.value > 0 THEN "passes" ELSE "fails"
      [] check.kind = "refine" ->
            IF v.type # "string" THEN "throws"
            ELSE IF Trim(v.text) # << >> THEN "passes" ELSE "fails"

\* every check runs; each failing check adds its issue
RECURSIVE RunChecks(_, _, _)
RunChecks(checks, v, path) ==
    IF checks = << >> THEN [threw |-> FALSE, issues |-> << >>, data |-> v]
    ELSE LET outcome == CheckOutcome(checks[1], v)
             rest == RunChecks(Tail(checks), v, path)
         IN IF outcome = "throws" THEN [threw |-> TRUE, error |-> "TypeError"]
            ELSE IF rest.threw THEN rest
            ELSE [threw |-> FALSE,
                  issues |-> (IF outcome = "fails"
                              THEN << [path |-> path, message |-> checks[1].message] >>
                              ELSE << >>)
                             \o rest.issues,
                  data |-> v]

\* schema.parse(v) at `path`: the issues in the order zod finds them and the
\* parsed data; an object schema parses every key of its shape and drops the others
RECURSIVE zodParse(_, _, _)
RECURSIVE ParseShape(_, _, _, _)
zodParse(schema, v, path) ==
    CASE schema.kind = "optional" ->
            IF v.type = "undefined" THEN [threw |-> FALSE, issues |-> << >>, data |-> v]
            ELSE zodParse(schema.inner, v, path)
      [] schema.kind = "any" -> RunChecks(schema.checks, v, path)
      [] schema.kind \in {"string", "number", "boolean"} ->
            IF v.type # schema.kind
            THEN [threw |-> FALSE,
                  issues |-> << [path |-> path, message |-> InvalidType(schema.kind, v)] >>,
                  data |-> v]
            ELSE RunChecks(schema.checks, v, path)
      [] schema.kind = "object" ->
            IF v.type # "object"
            THEN [threw |-> FALSE,
                  issues |-> << [path |-> path, message |-> InvalidType("object", v)] >>,
                  data |-> v]
            ELSE ParseShape(schema.shape, v, path, Obj(<< >>))

ParseShapeStopsAtFirstIssue(shape, v, path, data) ==
    IF shape = << >> THEN [threw |-> FALSE, issues |-> << >>, data |-> data]
    ELSE LET key == shape[1].key
             first == zodParse(shape[1].value, Get(v, key), Append(path, key))
             kept == IF first.threw \/ first.data.type = "undefined" THEN data
                     ELSE Put(data, key, first.data)
             rest == ParseShape(Tail(shape), v, path, kept)
         IN IF first.threw THEN first
            ELSE IF first.issues # << >> THEN first
            ELSE IF rest.threw THEN rest
            ELSE [threw |-> FALSE, issues |-> first.issues \o rest.issues, data |-> rest.data]

ParseShape(shape, v, path, data) ==
    IF shape = << >> THEN [threw |-> FALSE, issues |-> << >>, data |-> data]
    ELSE LET key == shape[1].key
             first == zodParse(shape[1].value, Get(v, key), Append(path, key))
             kept == IF first.threw \/ first.data.type = "undefined" THEN data
                     ELSE Put(data, key, first.data)
             rest == ParseShape(Tail(shape), v, path, kept)
         IN IF first.threw THEN first
            ELSE IF rest.threw THEN rest
            ELSE [threw |-> FALSE, issues |-> first.issues \o rest.issues, data |-> rest.data]

\* path.join('.')
RECURSIVE Join(_, _)
Join(parts, separator) ==
    IF parts = << >> THEN << >>
    ELSE IF Len(parts) = 1 THEN parts[1]
    ELSE parts[1] \o << separator >> \o Join(Tail(parts), separator)

\* error.errors.map((err) => ({ field: err.path.join('.'), message: err.message }))
formattedErrors(issues) ==
    [i \in 1..Len(issues) |->
        [field |-> Join(issues[i].path, "."), message |-> issues[i].message]]

ValidationOutcomeLeaksError(parsed, title) ==
    IF parsed.threw
    THEN [error |-> TRUE,
          response |-> Response(500,
                                [error |-> "Internal validation error",
                                 details |-> parsed.error],
                                << >>)]
    ELSE IF parsed.issues # << >>
    THEN [error |-> TRUE,
          response |-> Response(400,
                                [error |-> title, details |-> formattedErrors(parsed.issues)],
                                << >>)]
    ELSE [error |-> FALSE, data |-> parsed.data]

\* what follows schema.parse in createValidator and in validateQueryParams
ValidationOutcome(parsed, title) ==
    IF parsed.threw
    THEN [error |-> TRUE,
          response |-> Response(500, [error |-> "Internal validation error"], << >>)]
    ELSE IF parsed.issues # << >>
    THEN [error |-> TRUE,
          response |-> Response(400,
                                [error |-> title, details |-> formattedErrors(parsed.issues)],
                                << >>)]
    ELSE [error |-> FALSE, data |-> parsed.data]

createValidatorParsesUndefined(schema, text) ==
    LET body == json(text)
    IN [result |-> ValidationOutcome(zodParse(schema,
                                              IF body.threw THEN Undefined ELSE body.value,
                                              << >>),
                                     "Validation failed"),
        parseCalls |-> 1]

\* createValidator(schema)(req), once req.json() has settled on the body text:
\* the result and how many times schema.parse was called
createValidator(schema, text) ==
    LET body == json(text)
    IN IF body.threw
       THEN [result |-> [error |-> TRUE,
                         response |-> Response(400,
                                               [error |-> "Invalid JSON in request body"],
                                               << >>)],
             parseCalls |-> 0]
       ELSE [result |-> ValidationOutcome(zodParse(schema, body.value, << >>),
                                          "Validation failed"),
             parseCalls |-> 1]

\* str.split(separator)
RECURSIVE Split(_, _)
Split(s, separator) ==
    LET stops == {i \in 1..Len(s) : s[i] = separator}
    IN IF stops = {} THEN << s >>
       ELSE LET n == CHOOSE i \in stops : \A j \in stops : i <= j
            IN << SubSeq(s, 1, n - 1) >> \o Split(SubSeq(s, n + 1, Len(s)), separator)

\* in a query string a plus sign is a blank
PlusDecoded(s) == [i \in 1..Len(s) |-> IF s[i] = "+" THEN " " ELSE s[i]]

\* new URL(url).searchParams: the name and value pairs of the query string, in order
searchParams(url) ==
    LET marks == {i \in 1..Len(url) : url[i] = "?"}
        query == IF marks = {} THEN << >>
                 ELSE SubSeq(url, (CHOOSE i \in marks : \A j \in marks : i <= j) + 1, Len(url))
        pieces == SelectSeq(Split(query, "&"), LAMBDA piece : piece # << >>)
        Pair(piece) ==
            LET halves == Split(piece, "=")
            IN Member(PlusDecoded(halves[1]),
                      PlusDecoded(SubSeq(piece, Len(halves[1]) + 2, Len(piece))))
    IN [i \in 1..Len(pieces) |-> Pair(pieces[i])]

\* Number(str) of a blank string and of a decimal integer literal; NaN otherwise
Number(str) ==
    LET t == Trim(str)
        signed == t # << >> /\ t[1] \in {"-", "+"}
        digits == IF signed THEN Tail(t) ELSE t
        magnitude == DecimalValue(digits)
    IN IF t = << >> THEN [nan |-> FALSE, value |-> 0]
       ELSE IF digits # << >> /\ \A i \in 1..Len(digits) : DigitValue(digits[i]) >= 0
       THEN [nan |-> FALSE, value |-> IF t[1] = "-" THEN -magnitude ELSE magnitude]
       ELSE [nan |-> TRUE, value |-> 0]

\* the body of the forEach callback: the value stored under the key
Coerced(value) ==
    IF ~Number(value).nan THEN Num(Number(value).value)
    ELSE IF value = << "true" >> \/ value = << "false" >> THEN Bool(value = << "true" >>)
    ELSE Str(value)

\* searchParams.forEach(...): the params object
RECURSIVE QueryParams(_, _)
QueryParams(pairs, params) ==
    IF pairs = << >> THEN params
    ELSE QueryParams(Tail(pairs), Put(params, pairs[1].key, Coerced(pairs[1].value)))

\* validateQueryParams(req, schema): the result and the params object it built
validateQueryParams(url, schema) ==
    LET params == QueryParams(searchParams(url), Obj(<< >>))
    IN [result |-> ValidationOutcome(zodParse(schema, params, << >>),
                                     "Invalid query parameters"),
        params |-> params]

\* the schemas of the routes
Schema ==
    LET email == Member(<< "email" >>, commonSchemas.email)
    IN [signup |-> ZObject(<< email >>),
        payment |-> ZObject(<< email,
                               Member(<< "amount" >>, commonSchemas.positiveNumber),
                               Member(<< "memo" >>, ZOptional(ZType("string", << >>))) >>),
        profile |-> ZObject(<< Member(<< "user" >>, ZObject(<< email >>)) >>),
        note |-> ZObject(<< Member(<< "note" >>,
                                   ZType("any", << Check("refine", 0, "Note is required") >>))
                            >>),
        listing |-> ZObject(<< Member(<< "page" >>, ZOptional(commonSchemas.positiveNumber)),
                               Member(<< "q" >>, ZOptional(ZType("string", << >>))),
                               Member(<< "active" >>, ZOptional(ZType("boolean", << >>))) >>)]

\* the bodies clients send: the JSON text of a value, whole or with one symbol lost
BodyValues ==
    LET good == Str(<< "a", "@", "b", ".", "c" >>)
        email(v) == Member(<< "email" >>, v)
        amount(n) == Member(<< "amount" >>, Num(n))
        note(v) == Member(<< "note" >>, v)
        user(v) == Member(<< "user" >>, v)
    IN { Obj(<< >>), Obj(<< email(good) >>), Obj(<< email(Str(<< >>)) >>),
         Obj(<< email(Str(<< "n", "o" >>)) >>), Obj(<< email(Num(7)) >>),
         Obj(<< email(good), amount(5) >>), Obj(<< amount(5) >>),
         Obj(<< email(Str(<< >>)), amount(-1) >>),
         Obj(<< email(good), amount(5), Member(<< "memo" >>, Bool(TRUE)) >>),
         Obj(<< user(Obj(<< email(good) >>)) >>), Obj(<< user(Obj(<< >>)) >>),
         Obj(<< user(Obj(<< email(Str(<< >>)) >>)) >>), Obj(<< user(Null) >>),
         Obj(<< note(Str(<< "h", "i" >>)) >>), Obj(<< note(Str(<< " " >>)) >>),
         Obj(<< note(Num(3)) >>), Num(7), Null, Str(<< "x" >>) }

BodyTexts ==
    LET Without(s, i) == SubSeq(s, 1, i - 1) \o SubSeq(s, i + 1, Len(s))
    IN {stringify(v) : v \in BodyValues}
       \cup UNION {{Without(stringify(v), i) : i \in 1..Len(stringify(v))}
                      : v \in BodyValues}

\* the URLs clients request
Urls ==
    LET values == { << >>, << "4", "2" >>, << "-", "7" >>, << "0", "7" >>, << "true" >>,
                    << "false" >>, << "abc" >>, << "True" >>, << "1", "2", "a" >>, << "+" >>,
                    << "a", "=", "b" >> }
        names == {<< "page" >>, << "q" >>, << "active" >>, << "note" >>}
        pieces == {name \o << "=" >> \o value : name \in names, value \in values}
                     \cup {<< "q" >>}
    IN {<< "/api/items" >>} \cup {<< "/api/items", "?" >> \o piece : piece \in pieces}
       \cup {<< "/api/items", "?" >> \o piece \o << "&" >> \o other :
                piece \in {<< "page", "=", "2" >>, << "q", "=" >>}, other \in pieces}

-----------------------------------------------------------------------------
(* middleware/validation: the exported helpers *)

Max(a, b) == IF a >= b THEN a ELSE b
Min(a, b) == IF a <= b THEN a ELSE b

\* parseInt(String(v || fallback), 10) || otherwise; the falsy arguments are
\* undefined, 0 and the empty string
ParsedOr(v, fallback, otherwise) ==
    LET falsy == \/ v.type = "undefined"
                 \/ v.type = "number" /\ v.value = 0
                 \/ v.type = "string" /\ v.text = << >>
        string == IF v.type = "string" THEN v.text ELSE NumberToString(v.value)
        parsed == parseInt(IF falsy THEN fallback ELSE string)
    IN IF parsed.nan \/ parsed.value = 0 THEN otherwise ELSE parsed.value

validatePaginationUncapped(page, limit) ==
    LET pageNum == Max(1, ParsedOr(page, << "1" >>, 1))
        limitNum == Max(1, ParsedOr(limit, << "1", "0" >>, 10))
    IN [page |-> pageNum, limit |-> limitNum, offset |-> (pageNum - 1) * limitNum]

validatePagination(page, limit) ==
    LET pageNum == Max(1, ParsedOr(page, << "1" >>, 1))
        limitNum == Min(100, Max(1, ParsedOr(limit, << "1", "0" >>, 10)))
    IN [page |-> pageNum, limit |-> limitNum, offset |-> (pageNum - 1) * limitNum]

\* the arguments callers pass: absent, integers, and strings
PaginationArguments ==
    {Undefined}
    \cup {Num(n) : n \in (-PageSpan..PageSpan) \cup {99, 100, 101, 500}}
    \cup {Str(s) : s \in {<< >>, << "a", "b", "c" >>, << "0" >>, << "7" >>, << "-", "3" >>,
                          << "1", "2", "a" >>, << " ", "5" >>, << "2", "5", "0" >>}}

\* String.prototype.replace(/[...]/g, ''): every character of the class removed
RemoveAll(s, class) == SelectSeq(s, LAMBDA c : c \notin class)

LowerCase(c) ==
    CASE c = "J" -> "j" [] c = "A" -> "a" [] c = "V" -> "v" [] c = "S" -> "s"
      [] c = "C" -> "c" [] c = "R" -> "r" [] c = "I" -> "i" [] c = "P" -> "p"
      [] c = "T" -> "t" [] c = "O" -> "o" [] c = "N" -> "n" [] OTHER -> c

JavascriptColon == << "j", "a", "v", "a", "s", "c", "r", "i", "p", "t", ":" >>

\* \w, for the characters the inputs are written in
WordCharacter(c) ==
    LowerCase(c) \in {"a", "c", "e", "i", "j", "k", "l", "n", "o", "p", "r", "s", "t", "v",
                      "x", "0", "1", "2", "3", "4", "5", "6", "7", "8", "9", "_"}

\* replace(/javascript:/gi, ''): the matches removed, left to right
RECURSIVE RemoveProtocol(_)
RemoveProtocol(s) ==
    LET size == Len(JavascriptColon)
        matches == size <= Len(s)
                   /\ \A k \in 1..size : LowerCase(s[k]) = JavascriptColon[k]
    IN IF s = << >> THEN << >>
       ELSE IF matches THEN RemoveProtocol(SubSeq(s, size + 1, Len(s)))
       ELSE << s[1] >> \o RemoveProtocol(Tail(s))

\* replace(/on\w+\s*=/gi, ''): a match is o, n, the whole run of word
\* characters that follows (at least one), the whole run of blanks, and =
RECURSIVE RemoveHandlers(_)
RemoveHandlers(s) ==
    LET wordEnds == {j \in 2..Len(s) : \A k \in 3..j : WordCharacter(s[k])}
        words == CHOOSE j \in wordEnds : \A k \in wordEnds : k <= j
        blankEnds == {j \in words..Len(s) : \A k \in (words + 1)..j : s[k] = " "}
        blanks == CHOOSE j \in blankEnds : \A k \in blankEnds : k <= j
        matches == /\ Len(s) >= 2 /\ LowerCase(s[1]) = "o" /\ LowerCase(s[2]) = "n"
                   /\ words >= 3 /\ blanks + 1 <= Len(s) /\ s[blanks + 1] = "="
    IN IF s = << >> THEN << >>
       ELSE IF matches THEN RemoveHandlers(SubSeq(s, blanks + 2, Len(s)))
       ELSE << s[1] >> \o RemoveHandlers(Tail(s))

sanitizeStringKeepsQuotes(input) ==
    IF input.type # "string" THEN << >>
    ELSE RemoveHandlers(RemoveProtocol(RemoveAll(Trim(input.text), {"<", ">"})))

sanitizeString(input) ==
    IF input.type # "string" THEN << >>
    ELSE RemoveHandlers(RemoveProtocol(
             RemoveAll(RemoveAll(Trim(input.text), {"<", ">"}), {"'", Quote})))

\* the strings callers pass, one character per symbol: every string of up to
\* SanitizeLen characters among < > ' " blank o n =, and some longer ones
ScriptTag ==
    << "<", "s", "c", "r", "i", "p", "t", ">", "a", "l", "e", "r", "t", "(", "1", ")",
       "<", "/", "s", "c", "r", "i", "p", "t", ">" >>
SanitizeArguments ==
    {Str(s) : s \in UNION {[1..n -> {"<", ">", "'", Quote, " ", "o", "n", "="}]
                              : n \in 0..SanitizeLen}}
    \cup {Str(ScriptTag), Str(JavascriptColon \o << "x" >>),
          Str(<< "J", "A", "V", "A", "<", "s", "c", "r", "i", "p", "t", ":", Quote >>),
          Str(<< "o", "<", "n", "c", "l", "i", "c", "k", " ", "=", "'", "x", "'" >>),
          Str(<< "j", "a", "v", "a" >> \o JavascriptColon \o << "s", "c", "r", "i", "p", "t", ":" >>),
          Str(<< "j", "a", "v", "a", "o", "n", "x", "=", "s", "c", "r", "i", "p", "t", ":" >>),
          Num(5), Undefined}

\* the limits routes configure and the lengths requests declare
SizeLimits ==
    {n \in {k * 512 + d : k \in 0..SizeSteps, d \in -1..1} : n >= 1} \cup {OneMegabyte}
SizeRequests ==
    LET lengths == {NumberToString(n + d) : n \in SizeLimits, d \in -1..1}
                   \cup {LargeLength, << >>, << "a", "b", "c" >>, << "9", "9", "k" >>}
    IN {Request(("content-type" :> JsonType), LanAddress)}
       \cup {Request(("content-length" :> len) @@ ("content-type" :> JsonType), LanAddress)
                : len \in lengths}

\* the requests a proxy chain can deliver: each of the three sources of the
\* address absent, empty or set, and a header getClientIP does not read
ClientIPRequests ==
    LET Header(name, values) == {<< >>} \cup {(name :> v) : v \in values}
        forwarded == Header("x-forwarded-for",
                            {<< >>, << " " >>, << "1.1.1.1" >>, << " ", "1.1.1.1", " " >>,
                             << "1.1.1.1", ",", " ", "2.2.2.2" >>, << ",", "2.2.2.2" >>,
                             << " ", "1.1.1.1", " ", ",", "2.2.2.2", ",", "3.3.3.3" >>})
        real == Header("x-real-ip", {<< >>, << "4.4.4.4" >>})
        agent == Header("user-agent", {<< "curl" >>})
    IN {Request(f @@ r @@ a, ip) :
           f \in forwarded, r \in real, a \in agent, ip \in {<< >>, LanAddress}}

\* the media types routes allow and requests declare, a symbol per word
JsonWords == << "application", "/", "json" >>
FormWords == << "multipart", "/", "form-data" >>
ContentTypeRequests ==
    {Request(<< >>, LanAddress)}
    \cup {Request(("content-type" :> type), LanAddress) :
             type \in {<< >>, JsonWords, JsonWords \o << ";", " ", "charset=utf-8" >>,
                       << "text", "/", "plain" >>, << "text", "/", "json" >>,
                       FormWords \o << ";", " ", "boundary=x" >>, << "application" >>,
                       << "Application", "/", "JSON" >>, << "json", "/", "application" >>,
                       << "application", "/", "x-json" >>}}

-----------------------------------------------------------------------------
(* State *)

ClientKeys == {getClientIP(req) : req \in Requests} \cup {UserOne}
Slots == 1..NumSlots

Idle ==
    [status |-> "idle", req |-> Request(<< >>, << >>), guards |-> << >>, results |-> << >>,
     call |-> NoCall, result |-> Continue, sent |-> 0, handlerRan |-> FALSE]

EmptyLog == [name \in LimiterNames |-> [seen |-> 0, admitted |-> 0]]

RECURSIVE SumSeen(_, _)
SumSeen(log, names) ==
    IF names = {} THEN 0
    ELSE LET name == CHOOSE x \in names : TRUE
         IN log[name].seen + SumSeen(log, names \ {name})

\* the log of the key's window after an invocation of a limiter
LogAfter(log, call, result) ==
    IF call.bypassed \/ call.threw THEN log
    ELSE LET base == IF call.fresh THEN EmptyLog ELSE log[call.clientKey]
             entry == [seen |-> base[call.limiter].seen + 1,
                       admitted |-> base[call.limiter].admitted
                                      + (IF result = Continue THEN 1 ELSE 0)]
         IN [log EXCEPT ![call.clientKey] = [base EXCEPT ![call.limiter] = entry]]

\* a key without a record has no window
LogOfStore(log, store) == [k \in ClientKeys |-> IF k \in DOMAIN store THEN log[k] ELSE EmptyLog]

NoTrial == [fn |-> "none", status |-> "done"]

ClockReadings == {0} \cup {k * ClockGrain + j : k \in 1..2, j \in 0..1}

Init ==
    /\ env \in {"development", "production", "test"}
    /\ now = 0
    /\ requestStore = << >>
    /\ slot = [s \in Slots |-> Idle]
    /\ windowLog = [k \in ClientKeys |-> EmptyLog]
    /\ served = 0
    /\ trial = NoTrial

\* a deployment: NODE_ENV is production
InitProduction == Init /\ env = "production"

\* a server on which one client has sent all but two of the requests the
\* standard limiter allows, all at instant 0
InitSweep ==
    LET seen == DEFAULT_CONFIG.maxRequests - 2
    IN /\ env \in {"production", "development"}
       /\ now = 0
       /\ requestStore = (LanAddress :> [count |-> seen, resetTime |-> DEFAULT_CONFIG.windowMs])
       /\ slot = [s \in Slots |-> Idle]
       /\ windowLog = [k \in ClientKeys |->
                         IF k = LanAddress
                         THEN [EmptyLog EXCEPT !["standard"] = [seen |-> seen, admitted |-> seen]]
                         ELSE EmptyLog]
       /\ served = 0
       /\ trial = NoTrial

-----------------------------------------------------------------------------
(* Actions *)

\* the composed function runs from `cur` to its next await or to its return
Advance(s, cur) ==
    LET step == combineValidations(cur.guards, cur.results)
    IN IF step.do \in {"return", "throw"}
       THEN /\ slot' = [slot EXCEPT ![s] =
                  [cur EXCEPT !.status = IF step.do = "throw" THEN "rejected" ELSE "resolved",
                              !.result = step.result]]
            /\ UNCHANGED <<requestStore, windowLog>>
       ELSE LET g == cur.guards[step.index]
            IN CASE g.kind = "size" ->
                     /\ slot' = [slot EXCEPT ![s] =
                           [cur EXCEPT !.results =
                               Append(@, validateRequestSize(g.maxSizeBytes, cur.req))]]
                     /\ UNCHANGED <<requestStore, windowLog>>
                 [] g.kind = "contentType" ->
                     /\ slot' = [slot EXCEPT ![s] =
                           [cur EXCEPT !.results =
                               Append(@, validateContentType(cur.req, g.allowedTypes))]]
                     /\ UNCHANGED <<requestStore, windowLog>>
                 [] g.kind = "rateLimit" ->
                     LET Settle(out, log, counted) ==
                             /\ requestStore' = out.store
                             /\ windowLog' = LogOfStore(log, out.store)
                             /\ slot' = [slot EXCEPT ![s] =
                                   [cur EXCEPT
                                       !.results = Append(@, out.result),
                                       !.call = out.call
                                                @@ [returned |-> out.result,
                                                    stored |-> getRateLimitStatus(
                                                                  out.store,
                                                                  out.call.clientKey),
                                                    nth |-> IF ~counted THEN 0
                                                            ELSE SumSeen(
                                                                    log[out.call.clientKey],
                                                                    LimiterNames),
                                                    nthVia |-> IF ~counted THEN 0
                                                               ELSE log[out.call.clientKey]
                                                                       [g.limiter].seen,
                                                    storeBefore |-> requestStore,
                                                    storeAfter |-> out.store]]]
                         Logged(out) ==
                             Settle(out, LogAfter(windowLog, out.call, out.result),
                                    ~out.call.bypassed /\ ~out.call.threw)
                     IN Logged(rateLimitMiddleware(g.limiter, cur.req, requestStore, now, env))

\* a route is invoked: it calls its composed guards, which run to the first await
Arrive(s, req, guards, budget) ==
    /\ slot[s].status \in {"idle", "done"}
    /\ served < budget
    /\ served' = served + 1
    /\ Advance(s, [Idle EXCEPT !.status = "awaiting", !.req = req, !.guards = guards])
    /\ UNCHANGED <<env, now, trial>>

\* the composed function resumes after an await
Resume(s) ==
    /\ slot[s].status = "awaiting"
    /\ Advance(s, slot[s])
    /\ UNCHANGED <<env, now, served, trial>>

\* the route resumes with the composed result: it returns the blocking
\* response, or runs its own logic
Complete(s) ==
    /\ slot[s].status = "resolved"
    /\ slot' = [slot EXCEPT ![s] =
          [Idle EXCEPT !.status = "done",
                       !.sent = IF slot[s].result = Continue THEN 200 ELSE slot[s].result.status,
                       !.handlerRan = (slot[s].result = Continue)]]
    /\ UNCHANGED <<env, now, requestStore, windowLog, served, trial>>

\* the composed function rejected: the await in the route throws outside the
\* route's try block, the route invocation rejects and the framework answers 500
Reject(s) ==
    /\ slot[s].status = "rejected"
    /\ slot' = [slot EXCEPT ![s] = [Idle EXCEPT !.status = "done", !.sent = 500]]
    /\ UNCHANGED <<env, now, requestStore, windowLog, served, trial>>

Tick(readings) ==
    /\ \E t \in readings : t > now /\ now' = t
    /\ UNCHANGED <<env, requestStore, slot, windowLog, served, trial>>

ResetRateLimit(clientKey) ==
    /\ clientKey \in DOMAIN requestStore
    /\ requestStore' = resetRateLimit(requestStore, clientKey)
    /\ windowLog' = LogOfStore(windowLog, requestStore')
    /\ UNCHANGED <<env, now, slot, served, trial>>

ClearAllRateLimits ==
    /\ requestStore # << >>
    /\ requestStore' = clearAllRateLimits(requestStore)
    /\ windowLog' = LogOfStore(windowLog, requestStore')
    /\ UNCHANGED <<env, now, slot, served, trial>>

\* an operator or a test calls one of the exported administrative functions;
\* the call, the store it found and the store it left are kept
Administered(fn, clientKey, result) ==
    trial' = [fn |-> fn, status |-> "done", clientKey |-> clientKey, result |-> result,
              storeBefore |-> requestStore, storeAfter |-> requestStore']

AdminReset(clientKey) ==
    /\ requestStore' = resetRateLimit(requestStore, clientKey)
    /\ windowLog' = LogOfStore(windowLog, requestStore')
    /\ Administered("resetRateLimit", clientKey, NoRecord)
    /\ UNCHANGED <<env, now, slot, served>>

AdminStatus(clientKey) ==
    /\ requestStore' = requestStore
    /\ Administered("getRateLimitStatus", clientKey, getRateLimitStatus(requestStore, clientKey))
    /\ UNCHANGED <<env, now, slot, windowLog, served>>

AdminClear ==
    /\ requestStore' = clearAllRateLimits(requestStore)
    /\ windowLog' = LogOfStore(windowLog, requestStore')
    /\ Administered("clearAllRateLimits", << >>, NoRecord)
    /\ UNCHANGED <<env, now, slot, served>>

\* a route calls the validator createValidator(schema) returned: it runs to
\* the await of req.json()
ValidateCall(name, text) ==
    /\ trial = NoTrial
    /\ trial' = [fn |-> "validate", status |-> "awaiting", schema |-> name, text |-> text]
    /\ UNCHANGED <<env, now, requestStore, slot, windowLog, served>>

\* req.json() settles and the validator runs to its return
ValidateResume ==
    /\ trial.fn = "validate" /\ trial.status = "awaiting"
    /\ LET out == createValidator(Schema[trial.schema], trial.text)
       IN trial' = [trial EXCEPT !.status = "done"]
                   @@ [body |-> json(trial.text), result |-> out.result,
                       parseCalls |-> out.parseCalls]
    /\ UNCHANGED <<env, now, requestStore, slot, windowLog, served>>

\* a route calls validateQueryParams
ValidateQuery(name, url) ==
    /\ trial = NoTrial
    /\ LET out == validateQueryParams(url, Schema[name])
       IN trial' = [fn |-> "validateQueryParams", status |-> "done", schema |-> name,
                    url |-> url, params |-> out.params, result |-> out.result]
    /\ UNCHANGED <<env, now, requestStore, slot, windowLog, served>>

\* the server idle, before a helper is called
IdleServer ==
    /\ env = "production"
    /\ now = 0
    /\ requestStore = << >>
    /\ slot = [s \in Slots |-> Idle]
    /\ windowLog = [k \in ClientKeys |-> EmptyLog]
    /\ served = 0

Called(fn, arguments) == [fn |-> fn, status |-> "called", arguments |-> arguments]

\* the helper called returns
Return(fn, result) ==
    /\ trial.fn = fn /\ trial.status = "called"
    /\ trial' = [trial EXCEPT !.status = "done"] @@ [result |-> result]
    /\ UNCHANGED <<env, now, requestStore, slot, windowLog, served>>

InitPagination ==
    /\ IdleServer
    /\ trial \in {Called("validatePagination", [page |-> page, limit |-> limit])
                     : page \in PaginationArguments, limit \in PaginationArguments}

InitSanitize ==
    /\ IdleServer
    /\ trial \in {Called("sanitizeString", [input |-> input]) : input \in SanitizeArguments}

InitSize ==
    /\ IdleServer
    /\ trial \in {Called("validateRequestSize", [maxSizeBytes |-> limit, req |-> req])
                     : limit \in SizeLimits, req \in SizeRequests}

InitClientIP ==
    /\ IdleServer
    /\ trial \in {Called("getClientIP", [req |-> req]) : req \in ClientIPRequests}

InitContentType ==
    /\ IdleServer
    /\ trial \in {Called("validateContentType", [req |-> req, allowedTypes |-> allowed])
                     : req \in ContentTypeRequests,
                       allowed \in {<< >>, << JsonWords >>, << << "json" >> >>,
                                    << JsonWords, FormWords >>,
                                    << FormWords, << "text", "/" >> >>, << << "/" >> >>}}

LimiterRoutes == {<< RateLimitGuard(name) >> : name \in RouteLimiters}

\* one connection of one client, through the limiters a route creates
Next ==
    \/ \E guards \in LimiterRoutes : Arrive(1, Request(SmallJson, LanAddress), guards, MaxServed)
    \/ Resume(1)
    \/ Complete(1)
    \/ Tick(ClockReadings)
    \/ ResetRateLimit(LanAddress)
    \/ ClearAllRateLimits

Spec == InitProduction /\ [][Next]_vars

\* every client key, at one instant: the requests that differ in their client
\* key only
NextKeys ==
    \/ \E req \in {r \in Requests : r.headers["content-type"] = JsonType
                                    /\ r.headers["content-length"] = SmallLength},
          guards \in LimiterRoutes : Arrive(1, req, guards, MaxServed)
    \/ Resume(1)
    \/ Complete(1)

SpecKeys == Init /\ [][NextKeys]_vars

\* several connections of one client in flight through one limiter
NextRace ==
    \/ \E s \in Slots : Arrive(s, Request(SmallJson, LanAddress), << RateLimitGuard("burst") >>,
                               MaxServed)
    \/ \E s \in Slots : Resume(s)
    \/ \E s \in Slots : Complete(s)
    \/ Tick(ClockReadings)

SpecRace == InitProduction /\ [][NextRace]_vars

\* one connection of one client, through the composed guard lists: the
\* requests of the client differ in their declared body
NextCompose ==
    \/ \E req \in {r \in Requests : getClientIP(r) = LanAddress}, guards \in Routes :
          Arrive(1, req, guards, MaxServed)
    \/ Resume(1)
    \/ Complete(1)
    \/ Tick(ClockReadings)

SpecCompose == InitProduction /\ [][NextCompose]_vars

\* the preset limiters, each awaited by its own routes
NextTiers ==
    \/ \E name \in TierLimiters :
          Arrive(1, Request(SmallJson, LanAddress), << RateLimitGuard(name) >>, TierServed)
    \/ Resume(1)
    \/ Complete(1)
    \/ Tick({0, DEFAULT_CONFIG.windowMs, DEFAULT_CONFIG.windowMs + 1})

SpecTiers == InitProduction /\ [][NextTiers]_vars

\* one connection through a limiter keyed by a generator, alone and composed
UserRequests == {Request(SmallJson @@ ("x-user-id" :> UserOne), LanAddress),
                 Request(SmallJson, LanAddress),
                 Request(("content-length" :> LargeLength) @@ ("content-type" :> JsonType)
                            @@ ("x-user-id" :> UserOne), LanAddress)}

NextUser ==
    \/ \E req \in UserRequests,
          guards \in {<< RateLimitGuard("user") >>,
                      << SizeGuard(OneMegabyte), RateLimitGuard("user") >>} :
          Arrive(1, req, guards, MaxServed)
    \/ Resume(1)
    \/ Complete(1)
    \/ Reject(1)
    \/ Tick(ClockReadings)

SpecUser == InitProduction /\ [][NextUser]_vars

\* two clients behind one limiter, and the administrative functions called
\* at any point between the steps of their requests
AdminRequests == {Request(SmallJson, LanAddress),
                  Request(SmallJson @@ ("x-real-ip" :> LOOPBACK6), LanAddress)}

NextAdmin ==
    \/ \E req \in AdminRequests : Arrive(1, req, << RateLimitGuard("burst") >>, MaxServed)
    \/ Resume(1)
    \/ Complete(1)
    \/ \E clientKey \in {LanAddress, LOOPBACK6, UNKNOWN} : AdminReset(clientKey)
    \/ \E clientKey \in {LanAddress, LOOPBACK6, UNKNOWN} : AdminStatus(clientKey)
    \/ AdminClear

SpecAdmin == InitProduction /\ [][NextAdmin]_vars

\* a frequent client and a one-off client, through the standard limiter and
\* through a limiter with a short window
NextSweep ==
    \/ \E req \in AdminRequests, name \in {"standard", "burst"} :
          Arrive(1, req, << RateLimitGuard(name) >>, MaxServed)
    \/ Resume(1)
    \/ Complete(1)
    \/ Tick(ClockReadings)

SpecSweep == InitSweep /\ [][NextSweep]_vars

\* the same server as long as it runs: the clock advances and every await of
\* a route settles; whether another request arrives is up to the clients
SpecSweepLive ==
    /\ SpecSweep
    /\ WF_vars(Tick(ClockReadings))
    /\ WF_vars(Resume(1))
    /\ WF_vars(Complete(1))

\* the body validator and the query validator, called by routes
NextValidate ==
    \/ \E name \in {"signup", "payment", "profile", "note"}, text \in BodyTexts :
          ValidateCall(name, text)
    \/ ValidateResume
    \/ \E name \in {"listing", "note"}, url \in Urls : ValidateQuery(name, url)

SpecValidate == InitProduction /\ [][NextValidate]_vars

\* validatePagination on each pair of arguments
SpecPagination ==
    /\ InitPagination
    /\ [][Return("validatePagination",
                 validatePagination(trial.arguments.page, trial.arguments.limit))]_vars

\* sanitizeString on each argument
SpecSanitize ==
    /\ InitSanitize
    /\ [][Return("sanitizeString", sanitizeString(trial.arguments.input))]_vars

\* validateRequestSize on each limit and request
SpecSize ==
    /\ InitSize
    /\ [][Return("validateRequestSize",
                 validateRequestSize(trial.arguments.maxSizeBytes, trial.arguments.req))]_vars

\* getClientIP on each request
SpecClientIP ==
    /\ InitClientIP
    /\ [][Return("getClientIP", getClientIP(trial.arguments.req))]_vars

\* validateContentType on each request and list of allowed types
SpecContentType ==
    /\ InitContentType
    /\ [][Return("validateContentType",
                 validateContentType(trial.arguments.req, trial.arguments.allowedTypes))]_vars

-----------------------------------------------------------------------------
(* Properties *)

Calls == {slot[s].call : s \in Slots} \ {NoCall}
CountedCalls == {c \in Calls : ~c.bypassed}

\* C1: counting from the request that opens a key's window, each of the first
\* maxRequests requests of the key returns Continue and request maxRequests + 1
\* returns a response with status 429 (for a limiter that keeps the default status)
C1_FirstMaxThenBlock ==
    \A c \in CountedCalls :
        LET cfg == Limiter[c.limiter]
        IN cfg.statusCode = DEFAULT_CONFIG.statusCode =>
              /\ c.nth <= cfg.maxRequests => c.returned = Continue
              /\ c.nth = cfg.maxRequests + 1 =>
                    c.returned.kind = "response" /\ c.returned.status = 429

C1_Witness ==
    \E c \in CountedCalls :
        /\ c.limiter = "burst"
        /\ c.nth = BurstMax + 1
        /\ c.nthVia = BurstMax + 1
        /\ c.returned.kind = "response"

\* C2: of the requests of one key in flight through one limiter in one window,
\* at most maxRequests return Continue, in every interleaving
C2_AtMostMaxAdmitted ==
    \A k \in ClientKeys, name \in LimiterNames :
        windowLog[k][name].admitted <= Limiter[name].maxRequests

C2_Witness ==
    /\ \E s, t \in Slots :
          /\ s # t
          /\ slot[s].status = "awaiting" /\ slot[t].status = "awaiting"
          /\ slot[s].call.returned = Continue
          /\ slot[t].call.returned.kind = "response"
    /\ windowLog[LanAddress]["burst"].seen > BurstMax
    /\ windowLog[LanAddress]["burst"].admitted = BurstMax

\* C3: a request that finds its key's record with resetTime < now returns
\* Continue and leaves the key's record at count 1, resetTime now + windowMs
C3_ExpiredRecordReplaced ==
    \A c \in CountedCalls :
        (c.found /\ c.before.resetTime < c.now) =>
            /\ c.returned = Continue
            /\ c.stored = [count |-> 1, resetTime |-> c.now + Limiter[c.limiter].windowMs]

C3_Witness ==
    \E c \in CountedCalls :
        /\ c.found
        /\ c.before.resetTime < c.now
        /\ c.before.count > Limiter[c.limiter].maxRequests
        /\ c.returned = Continue

Blocks == {c \in CountedCalls : c.returned.kind = "response"}

\* r = ceil(x / 1000)
IsCeilOfThousandth(r, x) == 1000 * (r - 1) < x /\ x <= 1000 * r

\* C4: every block carries retryAfter = ceil((resetTime - now) / 1000), and the
\* value is greater than 0 at every instant at which a request can be blocked
C4_RetryAfterPositive ==
    \A c \in Blocks :
        /\ IsCeilOfThousandth(c.returned.body.retryAfter, c.stored.resetTime - c.now)
        /\ c.returned.body.retryAfter > 0

\* the quotas the API documentation gives for the preset limiters
TierQuota == [strict |-> 10, standard |-> 100, lenient |-> 200]

\* C5: within a window, each preset limiter admits a key's first 10 (strict),
\* 100 (standard), 200 (lenient) requests made through it, however the key's
\* requests through the other preset limiters interleave
C5_TierQuotaPerLimiter ==
    \A c \in CountedCalls :
        (c.limiter \in TierLimiters /\ c.nthVia <= TierQuota[c.limiter]) =>
            c.returned = Continue

\* C6: outside development a loopback or unknown key is never bypassed: its
\* requests are counted in the store and blocked after maxRequests
C6_NoBypassOutsideDevelopment ==
    env # "development" =>
        \A c \in Calls :
            IsLoopbackKey(c.clientKey) =>
                /\ ~c.bypassed
                /\ c.stored.count = c.nth
                /\ c.stored.count = (IF c.found THEN c.before.count ELSE 0) + 1
                /\ c.returned = Continue <=> c.nth <= Limiter[c.limiter].maxRequests

C6_Witness ==
    /\ env # "development"
    /\ \E c \in Calls :
          /\ IsLoopbackKey(c.clientKey)
          /\ c.stored.count = Limiter[c.limiter].maxRequests + 1
          /\ c.returned.kind = "response"

\* C7: a request is bypassed only if the limiter's policy sets the flag, the
\* environment is development and the key is a loopback or unknown address
C7_BypassNeedsFlag ==
    \A c \in Calls :
        c.bypassed =>
            /\ Limiter[c.limiter].skipSuccessfulRequests
            /\ env = "development"
            /\ IsLoopbackKey(c.clientKey)

AllDigits(str) == str # << >> /\ \A i \in 1..Len(str) : DigitValue(str[i]) >= 0

DaysFromCivil(year, month, day) ==
    LET y == IF month <= 2 THEN year - 1 ELSE year
        era == y \div 400
        yoe == y - era * 400
        doy == (153 * (IF month > 2 THEN month - 3 ELSE month + 9) + 2) \div 5 + day - 1
        doe == yoe * 365 + yoe \div 4 - yoe \div 100 + doy
    IN era * 146097 + doe - 719468

\* the instant an ISO 8601 timestamp YYYY-MM-DDTHH:mm:ss.sssZ denotes
InstantOfISO(str) ==
    LET F(a, b) == DecimalValue(SubSeq(str, a, b))
    IN DaysFromCivil(F(1, 4), F(6, 7), F(9, 10)) * 24 * 3600000
       + F(12, 13) * 3600000 + F(15, 16) * 60000 + F(18, 19) * 1000 + F(21, 23)

IsISOTimestamp(str) ==
    /\ Len(str) = 24
    /\ \A i \in 1..24 :
          CASE i \in {5, 8} -> str[i] = "-"
            [] i = 11 -> str[i] = "T"
            [] i \in {14, 17} -> str[i] = ":"
            [] i = 20 -> str[i] = "."
            [] i = 24 -> str[i] = "Z"
            [] OTHER -> DigitValue(str[i]) >= 0

\* the status and message each limiter was created with
PolicyStatus == [name \in LimiterNames |-> IF name = "api" THEN 503 ELSE 429]
PolicyMessage ==
    [standard |-> "Too many requests, please try again later.",
     strict |-> "Too many authentication attempts, please try again later.",
     lenient |-> "Too many requests, please try again later.",
     burst |-> "Too many requests, please try again later.",
     api |-> "API quota exceeded"]

\* C8: an over-limit response has the policy's status (429 by default), the
\* body {error: message, retryAfter} and the headers Retry-After = retryAfter,
\* X-RateLimit-Limit = maxRequests, X-RateLimit-Remaining = 0 and
\* X-RateLimit-Reset = the resetTime of the key's record; an admitted request
\* yields Continue and nothing else
C8_OverLimitResponseShape ==
    \A c \in CountedCalls :
        LET r == c.returned
        IN IF c.stored.count <= Limiter[c.limiter].maxRequests
           THEN r = Continue
           ELSE /\ r.kind = "response"
                /\ r.status = PolicyStatus[c.limiter]
                /\ DOMAIN r.body = {"error", "retryAfter"}
                /\ r.body.error = PolicyMessage[c.limiter]
                /\ AllDigits(r.headers.RetryAfter)
                /\ DecimalValue(r.headers.RetryAfter) = r.body.retryAfter
                /\ AllDigits(r.headers.XRateLimitLimit)
                /\ DecimalValue(r.headers.XRateLimitLimit) = Limiter[c.limiter].maxRequests
                /\ r.headers.XRateLimitRemaining = << "0" >>
                /\ IsISOTimestamp(r.headers.XRateLimitReset)
                /\ InstantOfISO(r.headers.XRateLimitReset) = c.stored.resetTime

C8_Witness ==
    \E c \in Blocks :
        /\ c.returned.status = 503
        /\ c.now > c.stored.resetTime - Limiter[c.limiter].windowMs
        /\ c.returned.body.retryAfter = 1

\* what a guard without state returns for a request
StatelessResult(g, req) ==
    IF g.kind = "size" THEN validateRequestSize(g.maxSizeBytes, req)
    ELSE validateContentType(req, g.allowedTypes)

IsResultOf(g, req, result) ==
    IF g.kind = "rateLimit"
    THEN result = Continue
         \/ (result.kind = "response" /\ result.status = PolicyStatus[g.limiter])
    ELSE result = StatelessResult(g, req)

Failures(results) == {i \in 1..Len(results) : results[i] # Continue}

\* C9: the composed function invokes the guards in list order, each only after
\* the previous one returned Continue; it returns the result of the first guard
\* that blocks, and Continue exactly when every guard of the list returned
\* Continue (always, for the empty list)
C9_ComposeInOrderFirstBlock ==
    \A s \in Slots :
        LET v == slot[s]
        IN v.status \in {"awaiting", "resolved"} =>
              /\ Len(v.results) <= Len(v.guards)
              /\ \A i \in 1..Len(v.results) : IsResultOf(v.guards[i], v.req, v.results[i])
              /\ \A i \in 1..(Len(v.results) - 1) : v.results[i] = Continue
              /\ v.status = "resolved" =>
                    /\ Failures(v.results) = {} =>
                          Len(v.results) = Len(v.guards) /\ v.result = Continue
                    /\ Failures(v.results) # {} =>
                          /\ Failures(v.results) = {Len(v.results)}
                          /\ v.result = v.results[Len(v.results)]
                    /\ v.result = Continue <=>
                          (Len(v.results) = Len(v.guards) /\ Failures(v.results) = {})

C9_Witness ==
    \E s \in Slots :
        /\ slot[s].status = "resolved"
        /\ slot[s].guards = GuardedRoute
        /\ Len(slot[s].results) = 2
        /\ slot[s].result.kind = "response"
        /\ slot[s].result.status = 415

LimiterBefore(guards, n) == \E i \in 1..n : guards[i].kind = "rateLimit"

\* C10: when a guard blocks, no later guard is invoked and the route's logic
\* does not run; a request rejected with 413 or 415 by a guard placed before
\* the rate limiter has invoked no limiter, and no step of it changes the store
C10_BlockShortCircuits ==
    [][\A s \in Slots :
          LET a == slot[s]
              b == slot'[s]
          IN /\ (b.status = "resolved" /\ b.result # Continue) =>
                   /\ Len(b.results) < Len(b.guards) =>
                         b.results[Len(b.results)] = b.result
                   /\ \A i \in 1..(Len(b.results) - 1) : b.results[i] = Continue
                   /\ (b.result.status \in {413, 415}
                       /\ ~LimiterBefore(b.guards, Len(b.results))) => b.call = NoCall
             /\ (b # a /\ b.call = NoCall) => requestStore' = requestStore
             /\ (a.status = "resolved" /\ b.status = "done") =>
                   /\ a.result # Continue => (~b.handlerRan /\ b.sent = a.result.status)
                   /\ a.result = Continue => b.handlerRan
    ]_vars

C10_Witness ==
    \E s \in Slots :
        /\ slot[s].status = "done"
        /\ slot[s].sent \in {413, 415}
        /\ ~slot[s].handlerRan
        /\ LanAddress \in DOMAIN requestStore
        /\ requestStore[LanAddress].count = windowLog[LanAddress]["burst"].seen
        /\ windowLog[LanAddress]["burst"].seen > 0

IsGuardResult(v) == v.kind \in {"continue", "response"}

\* C11: every invocation of a limiter, whatever the request, the config and the
\* store, and also when the config's keyGenerator throws, completes with
\* Continue or with a blocking response: it never throws or rejects
C11_LimiterNeverThrows == \A c \in Calls : IsGuardResult(c.returned)

\* C12: when a guard of the composed list throws or rejects, the composed
\* function still completes with Continue or a blocking response: it never
\* rejects to its caller
C12_ComposerNeverRejects ==
    \A s \in Slots :
        slot[s].status \in {"resolved", "rejected"} => IsGuardResult(slot[s].result)

BodyTrial == trial.fn = "validate" /\ trial.status = "done"
QueryTrial == trial.fn = "validateQueryParams" /\ trial.status = "done"

\* the value schema.parse was given, when the trial reached schema.parse
Validated ==
    IF QueryTrial THEN trial.params
    ELSE IF BodyTrial /\ ~trial.body.threw THEN trial.body.value
    ELSE Undefined

SchemaThrew == Validated # Undefined /\ zodParse(Schema[trial.schema], Validated, << >>).threw

\* C13: in the body validator and in the query validator, an exception other
\* than a schema violation raised by schema.parse is not rethrown: the result
\* has error = true and a response of status 500 whose body is exactly
\* {error: 'Internal validation error'}
C13_UnexpectedErrorIsGeneric500 ==
    SchemaThrew =>
        trial.result = [error |-> TRUE,
                        response |-> Response(500, [error |-> "Internal validation error"],
                                              << >>)]

C13_Witness == BodyTrial /\ SchemaThrew /\ trial.result.response.status = 500

\* C14: a body that is not JSON yields status 400 with error 'Invalid JSON in
\* request body' and schema.parse is never called; a schema violation yields
\* status 400 with error 'Validation failed' and a details list; the first
\* outcome occurs exactly for the bodies that fail to parse, so the two never
\* coincide
C14_ParseFailureDistinct ==
    BodyTrial =>
        LET invalidJson == [error |-> TRUE,
                            response |-> Response(400,
                                                  [error |-> "Invalid JSON in request body"],
                                                  << >>)]
        IN /\ trial.body.threw => trial.result = invalidJson /\ trial.parseCalls = 0
           /\ trial.result = invalidJson => trial.body.threw
           /\ (trial.result.error /\ trial.result.response.body.error = "Validation failed")
                 => /\ ~trial.body.threw
                    /\ trial.result.response.status = 400
                    /\ DOMAIN trial.result.response.body = {"error", "details"}
                    /\ Len(trial.result.response.body.details) >= 1

C14_Witness ==
    /\ BodyTrial /\ trial.body.threw /\ trial.parseCalls = 0
    /\ trial.result.response.body.error = "Invalid JSON in request body"

\* what a schema demands of a value, stated without the order zod works in
RECURSIVE FailedChecks(_, _, _)
FailedChecks(schema, v, path) ==
    CASE schema.kind = "optional" ->
            IF v.type = "undefined" THEN {} ELSE FailedChecks(schema.inner, v, path)
      [] schema.kind = "object" /\ v.type = "object" ->
            UNION {FailedChecks(schema.shape[i].value, Get(v, schema.shape[i].key),
                                Append(path, schema.shape[i].key))
                      : i \in 1..Len(schema.shape)}
      [] schema.kind \notin {"optional", "any", "object"} /\ v.type # schema.kind ->
            {[field |-> Join(path, "."), message |-> InvalidType(schema.kind, v)]}
      [] schema.kind = "object" /\ v.type # "object" ->
            {[field |-> Join(path, "."), message |-> InvalidType("object", v)]}
      [] OTHER ->
            {[field |-> Join(path, "."), message |-> schema.checks[i].message]
                : i \in {j \in 1..Len(schema.checks) :
                            CheckOutcome(schema.checks[j], v) = "fails"}}

ViolatedFields(schema, v) == {failed.field : failed \in FailedChecks(schema, v, << >>)}

Range(s) == {s[i] : i \in 1..Len(s)}

LooksNumeric(value) ==
    LET digits == IF value # << >> /\ value[1] \in {"-", "+"} THEN Tail(value) ELSE value
    IN digits # << >> /\ \A i \in 1..Len(digits) : DigitValue(digits[i]) >= 0

Denoted(value) ==
    IF value[1] = "-" THEN -DecimalValue(Tail(value))
    ELSE IF value[1] = "+" THEN DecimalValue(Tail(value)) ELSE DecimalValue(value)

\* C16: the params object given to the schema holds, for every query parameter,
\* the number a numeric-looking value denotes, the boolean for exactly 'true'
\* or 'false', and every other value, a word or an empty value, unchanged as
\* a string
C16_QueryCoercion ==
    QueryTrial =>
        LET pairs == searchParams(trial.url)
        IN \A i \in 1..Len(pairs) :
              (\A j \in (i + 1)..Len(pairs) : pairs[j].key # pairs[i].key) =>
                 LET value == pairs[i].value
                 IN Get(trial.params, pairs[i].key) =
                       IF LooksNumeric(value) THEN Num(Denoted(value))
                       ELSE IF value = << "true" >> THEN Bool(TRUE)
                       ELSE IF value = << "false" >> THEN Bool(FALSE)
                       ELSE Str(value)

PaginationTrial == trial.fn = "validatePagination" /\ trial.status = "done"

\* C17: for every pair of arguments, each an integer, a numeric or non-numeric
\* string, or absent, validatePagination returns integers with page >= 1,
\* 1 <= limit <= 100 and offset = (page - 1) * limit >= 0; (0, 500) gives
\* page 1, limit 100, offset 0 and ('abc', 'abc') gives page 1, limit 10, offset 0
C17_PaginationClamped ==
    PaginationTrial =>
        LET r == trial.result
            word == Str(<< "a", "b", "c" >>)
        IN /\ r.page \in Int /\ r.limit \in Int /\ r.offset \in Int
           /\ r.page >= 1 /\ 1 <= r.limit /\ r.limit <= 100
           /\ r.offset = (r.page - 1) * r.limit /\ r.offset >= 0
           /\ trial.arguments = [page |-> Num(0), limit |-> Num(500)]
                 => r = [page |-> 1, limit |-> 100, offset |-> 0]
           /\ trial.arguments = [page |-> word, limit |-> word]
                 => r = [page |-> 1, limit |-> 10, offset |-> 0]

C17_Witness ==
    /\ PaginationTrial
    /\ trial.arguments = [page |-> Num(0), limit |-> Num(500)]
    /\ trial.result = [page |-> 1, limit |-> 100, offset |-> 0]

\* C18: for every integer argument the result is the argument clamped, page =
\* max(1, page) and limit = min(100, max(1, limit)): the defaults are for
\* absent and non-numeric arguments only, and every integer limit below 1
\* yields limit 1
C18_IntegerArgumentsClamped ==
    PaginationTrial =>
        LET page == trial.arguments.page
            limit == trial.arguments.limit
        IN /\ page.type = "number" => trial.result.page = Max(1, page.value)
           /\ limit.type = "number" => trial.result.limit = Min(100, Max(1, limit.value))
           /\ (limit.type = "number" /\ limit.value < 1) => trial.result.limit = 1

SanitizeTrial == trial.fn = "sanitizeString" /\ trial.status = "done"

\* C19: for every input string, the output of sanitizeString contains none of
\* the characters <, >, single quote and double quote
C19_NoMarkupCharacters ==
    SanitizeTrial =>
        \A i \in 1..Len(trial.result) : trial.result[i] \notin {"<", ">", "'", Quote}

C19_Witness ==
    /\ SanitizeTrial
    /\ trial.arguments.input = Str(ScriptTag)
    /\ trial.result = RemoveAll(ScriptTag, {"<", ">"})

SizeTrial == trial.fn = "validateRequestSize" /\ trial.status = "done"

\* maxSizeBytes / 1024 rounded to an integer, a half rounding up
RoundedKilobytes(maxSizeBytes) ==
    CHOOSE n \in 0..(maxSizeBytes \div 1024 + 1) :
        /\ 2 * (n * 1024 - maxSizeBytes) <= 1024
        /\ 2 * (maxSizeBytes - n * 1024) < 1024

\* C20: the size guard returns a response of status 413 whose maxSize is
\* maxSizeBytes / 1024 rounded to an integer followed by KB exactly when the
\* request declares a content-length greater than maxSizeBytes (1048576 against
\* a declared 2097152 gives '1024KB'); when the content-length is absent, equal
\* to maxSizeBytes or below it, it returns Continue
C20_SizeGuardThreshold ==
    SizeTrial =>
        LET maxSizeBytes == trial.arguments.maxSizeBytes
            req == trial.arguments.req
            absent == ~HasHeader(req, "content-length")
            declared == ~absent /\ AllDigits(req.headers["content-length"])
            length == DecimalValue(req.headers["content-length"])
        IN /\ absent => trial.result = Continue
           /\ (declared /\ length <= maxSizeBytes) => trial.result = Continue
           /\ (declared /\ length > maxSizeBytes) =>
                 /\ trial.result.kind = "response"
                 /\ trial.result.status = 413
                 /\ trial.result.body.maxSize
                       = NumberToString(RoundedKilobytes(maxSizeBytes)) \o << "KB" >>
           /\ (maxSizeBytes = OneMegabyte /\ declared /\ length = 2097152) =>
                 trial.result.body.maxSize = << "1", "0", "2", "4", "KB" >>

C20_Witness ==
    /\ SizeTrial
    /\ trial.arguments.maxSizeBytes = OneMegabyte
    /\ HasHeader(trial.arguments.req, "content-length")
    /\ trial.arguments.req.headers["content-length"] = LargeLength
    /\ trial.result.kind = "response" /\ trial.result.status = 413
    /\ trial.result.body.maxSize = << "1", "0", "2", "4", "KB" >>

ContentTypeTrial == trial.fn = "validateContentType" /\ trial.status = "done"

\* s occurs in str as a run of consecutive characters
IsSubstring(s, str) ==
    \E before, after \in 0..Len(str) :
        /\ before + Len(s) + after = Len(str)
        /\ \A k \in 1..Len(s) : str[before + k] = s[k]

\* C21: the content-type guard returns a response of status 415 carrying
\* allowedTypes exactly when the request's content-type header is absent or
\* contains none of the allowedTypes entries as a substring; otherwise it
\* returns Continue, so an empty allowedTypes list blocks every request
C21_ContentTypeGuard ==
    ContentTypeTrial =>
        LET req == trial.arguments.req
            allowedTypes == trial.arguments.allowedTypes
            absent == ~HasHeader(req, "content-type")
            matched == ~absent /\ \E i \in 1..Len(allowedTypes) :
                                     IsSubstring(allowedTypes[i], req.headers["content-type"])
        IN /\ (absent \/ ~matched) =>
                 /\ trial.result.kind = "response"
                 /\ trial.result.status = 415
                 /\ trial.result.body.allowedTypes = allowedTypes
           /\ matched => trial.result = Continue
           /\ allowedTypes = << >> => trial.result # Continue

C21_Witness ==
    /\ ContentTypeTrial
    /\ trial.arguments.allowedTypes = << JsonWords, FormWords >>
    /\ HasHeader(trial.arguments.req, "content-type")
    /\ trial.arguments.req.headers["content-type"] = << "text", "/", "plain" >>
    /\ trial.result.kind = "response" /\ trial.result.status = 415
    /\ trial.result.body.allowedTypes = << JsonWords, FormWords >>

ClientIPTrial == trial.fn = "getClientIP" /\ trial.status = "done"

\* e is the first comma-separated entry of str, without the blanks around it
IsFirstEntry(e, str) ==
    \E lead, trail \in 0..Len(str) :
        LET end == lead + Len(e) + trail
        IN /\ end <= Len(str)
           /\ end < Len(str) => str[end + 1] = ","
           /\ \A k \in 1..end : str[k] # ","
           /\ \A k \in 1..lead : str[k] = " "
           /\ \A k \in 1..trail : str[lead + Len(e) + k] = " "
           /\ \A k \in 1..Len(e) : str[lead + k] = e[k]
           /\ e # << >> => e[1] # " " /\ e[Len(e)] # " "

\* the key the priority order gives, a source counting when `Given` says so
FollowsPriority(key, req, Given(_, _)) ==
    IF Given(req, "x-forwarded-for") THEN IsFirstEntry(key, req.headers["x-forwarded-for"])
    ELSE IF Given(req, "x-real-ip") THEN key = req.headers["x-real-ip"]
    ELSE IF req.ip # << >> THEN key = req.ip
    ELSE key = UNKNOWN

\* C22 as stated: the key is the first comma-separated entry of x-forwarded-for
\* when that header is present, otherwise x-real-ip when present, otherwise the
\* peer address, otherwise 'unknown'; resolving changes no state
C22_PriorityByPresence ==
    ClientIPTrial => FollowsPriority(trial.result, trial.arguments.req, HasHeader) /\ IdleServer

\* C22 amended: a header counts when it is present with a non-empty value; an
\* empty x-forwarded-for or x-real-ip is passed over for the next source.  The
\* key depends on these sources only and resolving changes no state
C22_PriorityByValue ==
    ClientIPTrial => FollowsPriority(trial.result, trial.arguments.req, HeaderSet) /\ IdleServer

C22_Witness ==
    /\ ClientIPTrial
    /\ HasHeader(trial.arguments.req, "x-forwarded-for")
    /\ trial.arguments.req.headers["x-forwarded-for"] = << >>
    /\ HasHeader(trial.arguments.req, "x-real-ip")
    /\ trial.result = << "4.4.4.4" >>
    /\ trial.result = trial.arguments.req.headers["x-real-ip"]

AdminTrial(fn) == trial.fn = fn /\ trial.status = "done"

\* C23: reset(key) removes that key's record and leaves every other key's
\* record unchanged, so the key's next request is admitted with count 1;
\* status(key) returns the stored record or null and never changes the store;
\* clearAll() leaves the store empty
C23_AdminOperationsFrame ==
    /\ AdminTrial("resetRateLimit") =>
          /\ DOMAIN trial.storeAfter = DOMAIN trial.storeBefore \ {trial.clientKey}
          /\ \A k \in DOMAIN trial.storeAfter : trial.storeAfter[k] = trial.storeBefore[k]
          /\ \A c \in Calls :
                (c.clientKey = trial.clientKey /\ c.storeBefore = trial.storeAfter) =>
                    c.returned = Continue /\ c.stored.count = 1
    /\ AdminTrial("getRateLimitStatus") =>
          /\ trial.storeAfter = trial.storeBefore
          /\ trial.clientKey \in DOMAIN trial.storeBefore =>
                trial.result = trial.storeBefore[trial.clientKey]
          /\ trial.clientKey \notin DOMAIN trial.storeBefore => trial.result = NoRecord
    /\ AdminTrial("clearAllRateLimits") => DOMAIN trial.storeAfter = {}

\* a key at its limit is reset while another key has a record, and its next
\* request is admitted
C23_Witness ==
    /\ AdminTrial("resetRateLimit")
    /\ trial.clientKey = LanAddress
    /\ LanAddress \in DOMAIN trial.storeBefore
    /\ trial.storeBefore[LanAddress].count = BurstMax
    /\ LOOPBACK6 \in DOMAIN trial.storeAfter
    /\ slot[1].call # NoCall
    /\ slot[1].call.clientKey = LanAddress
    /\ slot[1].call.storeBefore = trial.storeAfter
    /\ slot[1].call.returned = Continue
    /\ LanAddress \in DOMAIN requestStore
    /\ requestStore[LanAddress].count = 1

\* the calls that reached the store
StoreCalls == {c \in Calls : ~c.bypassed /\ ~c.threw}

\* C24: across limiter requests and sweeps, the count of a key's stored record
\* never decreases while now <= resetTime of that record; count restarts only
\* when the record is replaced after now > resetTime
C24_CountMonotoneInWindow ==
    \A c \in Calls : \A k \in DOMAIN c.storeBefore :
        LET old == c.storeBefore[k]
        IN /\ c.now <= old.resetTime =>
                 k \in DOMAIN c.storeAfter /\ c.storeAfter[k].count >= old.count
           /\ (k \in DOMAIN c.storeAfter /\ c.storeAfter[k].count < old.count) =>
                 /\ c.now > old.resetTime
                 /\ k = c.clientKey
                 /\ c.storeAfter[k].count = 1

\* a record that grew past 1 is replaced after its window expired, while the
\* record of another key, inside its window, keeps its count
C24_Witness ==
    \E c \in StoreCalls :
        /\ c.found /\ c.before.count >= 2 /\ c.now > c.before.resetTime
        /\ c.stored.count = 1
        /\ \E k \in DOMAIN c.storeBefore :
              /\ k # c.clientKey
              /\ c.now <= c.storeBefore[k].resetTime
              /\ k \in DOMAIN c.storeAfter
              /\ c.storeAfter[k].count = c.storeBefore[k].count

\* the invocations whose admitted request brought the count to a multiple of 100
SweepingCalls == {c \in StoreCalls : c.returned = Continue /\ c.stored.count % 100 = 0}

\* the store as the sweep of invocation c found it
AtSweep(c) ==
    [k \in DOMAIN c.storeBefore \cup {c.clientKey} |->
        IF k = c.clientKey THEN c.record ELSE c.storeBefore[k]]

\* C25: a sweep removes every record with resetTime < now and no record with
\* now <= resetTime; no invocation removes a record whose window is still
\* open, the record of the request that triggered the sweep included
C25_SweepRemovesExactlyExpired ==
    /\ \A c \in SweepingCalls : \A k \in DOMAIN AtSweep(c) :
          /\ AtSweep(c)[k].resetTime < c.now => k \notin DOMAIN c.storeAfter
          /\ c.now <= AtSweep(c)[k].resetTime =>
                k \in DOMAIN c.storeAfter /\ c.storeAfter[k] = AtSweep(c)[k]
    /\ \A c \in Calls : \A k \in DOMAIN c.storeBefore :
          c.now <= c.storeBefore[k].resetTime => k \in DOMAIN c.storeAfter
    /\ \A c \in StoreCalls : c.clientKey \in DOMAIN c.storeAfter

\* a sweep at the very instant another key's window ends keeps that record
C25_Witness ==
    \E c \in SweepingCalls :
        \E k \in DOMAIN c.storeBefore :
            /\ k # c.clientKey
            /\ c.storeBefore[k].resetTime = c.now
            /\ k \in DOMAIN c.storeAfter

\* C26: once a record's window has expired, the record is eventually removed
\* from the store as time advances, with no further request from its key or
\* from any other key being required
C26_StaleEventuallyReclaimed ==
    \A k \in ClientKeys :
        (k \in DOMAIN requestStore /\ requestStore[k].resetTime < now)
            ~> (k \notin DOMAIN requestStore)

\* the store an invocation leaves when it ran no sweep
Unswept(c) == IF c \in StoreCalls THEN AtSweep(c) ELSE c.storeBefore

\* C27: the sweep runs only inside request handling, exactly when an admitted
\* request brings its key's count to a multiple of 100; blocked and bypassed
\* requests never trigger it, a limiter with maxRequests below 100 never
\* triggers it, and expired records stay in the store until a request sweeps
\* them, however far the clock advances
C27_SweepOnlyOnHundredthAdmitted ==
    /\ \A c \in Calls :
          /\ c \notin SweepingCalls => c.storeAfter = Unswept(c)
          /\ c \in SweepingCalls =>
                /\ Limiter[c.limiter].maxRequests >= 100
                /\ DOMAIN c.storeAfter
                      = {k \in DOMAIN AtSweep(c) : ~(AtSweep(c)[k].resetTime < c.now)}
    /\ slot[1].call # NoCall => requestStore = slot[1].call.storeAfter

\* a request through a limiter of 2 brings its key's count to 100 and is
\* blocked: the expired record of the other key stays
C27_Witness ==
    /\ slot[1].call # NoCall
    /\ slot[1].call.limiter = "burst"
    /\ slot[1].call.returned.kind = "response"
    /\ slot[1].call.stored.count = 100
    /\ LOOPBACK6 \in DOMAIN slot[1].call.storeBefore
    /\ slot[1].call.storeBefore[LOOPBACK6].resetTime < slot[1].call.now
    /\ LOOPBACK6 \in DOMAIN requestStore

\* C28: for every input string, the output of sanitizeString contains no
\* occurrence, in any letter case, of the substring 'javascript:'
C28_NoJavascriptProtocol ==
    SanitizeTrial =>
        ~IsSubstring(JavascriptColon,
                     [i \in 1..Len(trial.result) |-> LowerCase(trial.result[i])])

\* C29: handling a request for key A never creates, replaces or changes the
\* record of another key B; its only effect on B is the removal of B's
\* already expired record by a sweep the request triggers
C29_OtherKeysUntouched ==
    \A c \in Calls :
        /\ \A k \in DOMAIN c.storeAfter \ {c.clientKey} :
              k \in DOMAIN c.storeBefore /\ c.storeAfter[k] = c.storeBefore[k]
        /\ \A k \in DOMAIN c.storeBefore \ (DOMAIN c.storeAfter \cup {c.clientKey}) :
              c.storeBefore[k].resetTime < c.now /\ c \in SweepingCalls

\* the hundredth request of one key removes the expired record of the other
C29_Witness ==
    \E c \in SweepingCalls :
        /\ c.clientKey = LanAddress
        /\ LOOPBACK6 \in DOMAIN c.storeBefore
        /\ c.storeBefore[LOOPBACK6].resetTime < c.now
        /\ LOOPBACK6 \notin DOMAIN c.storeAfter
        /\ DOMAIN requestStore = {LanAddress}

\* the requests through c's limiter that were blocked earlier in the window
BlockedEarlier(c) ==
    windowLog[c.clientKey][c.limiter].seen - windowLog[c.clientKey][c.limiter].admitted
        - (IF c.returned = Continue THEN 0 ELSE 1)

\* C30: every request inside the window, admitted or blocked, increments count
\* only and leaves resetTime as it is; count keeps growing past maxRequests,
\* and once a key has been blocked by a limiter every later request of the key
\* through that limiter is blocked until now > resetTime
C30_WindowFixedBlockPersists ==
    \A c \in StoreCalls :
        /\ (c.found /\ c.now <= c.before.resetTime) =>
              c.stored = [count |-> c.before.count + 1, resetTime |-> c.before.resetTime]
        /\ (c = slot[1].call /\ BlockedEarlier(c) > 0) => c.returned.kind = "response"

\* a key already blocked is blocked again later in the window: count grows
\* past maxRequests and resetTime stays
C30_Witness ==
    \E c \in StoreCalls :
        /\ c = slot[1].call
        /\ BlockedEarlier(c) > 0
        /\ c.limiter = "burst"
        /\ c.before.count > BurstMax
        /\ c.now > 0 /\ c.before.resetTime = 2 * ClockGrain
        /\ c.returned.kind = "response"
        /\ c.stored = [count |-> c.before.count + 1, resetTime |-> c.before.resetTime]

====
